---- MODULE Spec2Model ----
(***************************************************************************)
(* The Council (src/index.tsx): the App component, its deliberation        *)
(* orchestrator, its chat assistant and its persistence effects.           *)
(* runDeliberation, handleSendMessage and generateCreative are async       *)
(* functions; every action below is one synchronous stretch of one of      *)
(* them, from one `await` to the next, together with the render and the    *)
(* effects that the stretch's state updates bring about.  React state      *)
(* (useState) is the set of VARIABLES; the locals of each invocation of    *)
(* runDeliberation live in one record of `runs`, those of each chat call   *)
(* in one record of `chatCalls`.  The user is signed in: every handler     *)
(* modelled here belongs to an element rendered for a signed-in user only  *)
(* (lines 227, 243, 247).                                                  *)
(***************************************************************************)
EXTENDS Integers, Sequences, FiniteSets, TLC

\* ------------------------------------------------------------------ bounds
\* number of runs the user starts (each start reads a fresh Date.now())
MaxRuns == 2
\* number of model responses, over a behaviour, that carry no usable text
MaxOddTexts == 1
\* number of model calls the started runs are scheduled to issue in total
\* (a Full run schedules 16, a Debate run 7, a Technologist run 2)
MaxScheduledCalls == 18
\* number of things the user does in the chat and in the sidebar: messages
\* sent, action buttons clicked, changes of the active deliberation
MaxUserSteps == 2
\* number of model calls the runs started beside a chat are scheduled to
\* issue in total (ChatSpec)
MaxChatRunCalls == 2
\* number of records of a history list found in storage at start-up
MaxSaved == 2

\* ------------------------------------------------------- program constants
PERSONAS ==
  << [id |-> "environmentalist", name |-> "Dr. Anya Sharma"],
     [id |-> "technologist",     name |-> "Ben Carter"],
     [id |-> "ethicist",         name |-> "Dr. Lena Petrova"],
     [id |-> "economist",        name |-> "Marcus Cole"],
     [id |-> "public-health",    name |-> "Dr. Kenji Tanaka"] >>

TOTAL_ROUNDS == 3

DeliberationModes == {"full", "technologist", "debate"}

\* ------------------------------------------------------- JavaScript values
\* the value `undefined` (an absent response text, an absent finalDecision)
Undefined == "<undefined>"

\* `null` of activePersonaId
Null == "<null>"

\* `null` of activeDeliberation: a record, as every Deliberation is, whose
\* id reads as `activeDeliberation?.id || null` does (line 227)
NoDeliberation == [id |-> Null]

\* JavaScript truthiness of a string-or-undefined value
Falsy(v) == v = Undefined \/ v = ""

\* a || b
OrElse(a, b) == IF Falsy(a) THEN b ELSE a

\* `${v}` : a template literal renders undefined as the text "undefined"
Interpolate(v) == IF v = Undefined THEN "undefined" ELSE v

\* characters String.prototype.trim removes
WhiteSpace == {" "}

RECURSIVE TrimStart(_)
TrimStart(s) ==
  IF s # <<>> /\ Head(s) \in WhiteSpace THEN TrimStart(Tail(s)) ELSE s

RECURSIVE TrimEnd(_)
TrimEnd(s) ==
  IF s # <<>> /\ s[Len(s)] \in WhiteSpace
    THEN TrimEnd(SubSeq(s, 1, Len(s) - 1)) ELSE s

\* s.trim(), a string being a sequence of characters
Trim(s) == TrimEnd(TrimStart(s))

\* s.substring(from, to), 0-based, end exclusive
Substring(s, from, to) ==
  SubSeq(s, from + 1, IF to < Len(s) THEN to ELSE Len(s))

\* ------------------------------------------------------------------ inputs
\* what the user can type: nothing, white space only, a proposal
UserInputs == { <<>>, <<" ">>, <<"p">> }

\* response.text of a call that returned: a text, or no text at all
ResponseTexts == {"aye", Undefined}

\* `${error}` of a rejected generateContent call
ErrorText == "Error: generateContent failed"

\* what a run logs for a call that was rejected
Rejected == "<rejected>"

\* ------------------------------------------------------------------- state
VARIABLES
  history,            \* useState<Deliberation[]>            (line 78)
  activeDeliberation, \* useState<Deliberation | null>       (line 79)
  userInput,          \* useState('')                        (line 86)
  attachments,        \* useState<Attachment[]>([])          (line 87)
  deliberationMode,   \* useState<DeliberationMode>('full')  (line 88)
  isLoading,          \* useState(false)                     (line 90)
  activePersonaId,    \* useState<string | null>(null)       (line 91)
  currentRound,       \* useState(0)                         (line 92)
  now,                \* the clock read by Date.now()
  runs,               \* the invocations of runDeliberation, oldest first
  chatHistory,        \* useState<ChatMessage[]>([])         (line 83)
  isChatLoading,      \* useState(false)                     (line 84)
  chatCalls,          \* the chat's model calls that are outstanding
  activeIsStored,     \* activeDeliberation is the very object that the
                      \* history array holds (object identity)
  storage,            \* localStorage's item 'council-history'
  boot,               \* the start-up: its position, what storage held
                      \* before it, and the state updates it has queued
  used                \* how many things the user did in chat and sidebar

vars == << history, activeDeliberation, userInput, attachments,
           deliberationMode, isLoading, activePersonaId, currentRound,
           now, runs, chatHistory, isChatLoading, chatCalls,
           activeIsStored, storage, boot, used >>

\* what no stretch of runDeliberation touches
chatVars == << isChatLoading, chatCalls, boot, used >>

\* what runDeliberation owns
runVars == << userInput, attachments, deliberationMode, isLoading,
              activePersonaId, currentRound, now, runs >>

\* ----------------------------------------------------------- pure helpers
\* a slip in the Debate filter: the wrong pair of ids
deliberationMembersWrongPair(mode) ==
  CASE mode = "full"         -> PERSONAS
    [] mode = "technologist" -> SelectSeq(PERSONAS, LAMBDA p : p.id = "technologist")
    [] mode = "debate"       -> SelectSeq(PERSONAS, LAMBDA p : p.id \in {"technologist", "economist"})

\* the participants of a mode, in registry order (line 191)
deliberationMembers(mode) ==
  CASE mode = "full"         -> PERSONAS
    [] mode = "technologist" -> SelectSeq(PERSONAS, LAMBDA p : p.id = "technologist")
    [] mode = "debate"       -> SelectSeq(PERSONAS, LAMBDA p : p.id \in {"ethicist", "economist"})

\* a slip in the round count: the Technologist mode not told apart
roundsIgnoringMode(mode) == TOTAL_ROUNDS

\* the number of rounds of a mode (line 198)
rounds(mode) == IF mode = "technologist" THEN 1 ELSE TOTAL_ROUNDS

\* the parts of a request; every part is one record
ProposalPart(prompt) == [kind |-> "proposal", prompt |-> prompt]
InlineDataPart(a)    == [kind |-> "inlineData", data |-> a.data, mimeType |-> a.mimeType]
DocumentsPart(names) == [kind |-> "documents", names |-> names]
TurnPart(p, round)   == [kind |-> "turn", name |-> p.name, round |-> round]
MinutePart(p, round, text) ==
  [kind |-> "minute", name |-> p.name, round |-> round, text |-> Interpolate(text)]
SynthesisPart        == [kind |-> "synthesis"]

\* attachedFiles.find(a => a.type === 'image'), as a sequence of 0 or 1
FirstImage(attachedFiles) ==
  LET images == SelectSeq(attachedFiles, LAMBDA a : a.type = "image")
  IN  IF images = <<>> THEN <<>> ELSE <<Head(images)>>

NonImages(attachedFiles) == SelectSeq(attachedFiles, LAMBDA a : a.type # "image")

\* userPromptParts (lines 192-195)
userPromptParts(prompt, attachedFiles) ==
  LET image == FirstImage(attachedFiles)
      docs  == NonImages(attachedFiles)
  IN  <<ProposalPart(prompt)>>
      \o (IF image # <<>> /\ ~Falsy(image[1].data) /\ ~Falsy(image[1].mimeType)
            THEN <<InlineDataPart(image[1])>> ELSE <<>>)
      \o (IF Len(docs) > 0
            THEN <<DocumentsPart([i \in 1..Len(docs) |-> docs[i].name])>> ELSE <<>>)

\* a slip in the accumulation: the part put in front
PushPartInFront(parts, part) == <<part>> \o parts

\* conversationHistory.push(part) (line 207)
PushPart(parts, part) == Append(parts, part)

\* a slip in the stored text: the placeholder forgotten
MinuteTextWithoutPlaceholder(text) == Interpolate(text)

\* the text a success minute stores (line 205)
MinuteText(text) == OrElse(text, "No response.")

\* a slip in the history update: the earlier records dropped
UpsertDroppingOthers(prev, nd) == <<nd>>

\* setHistory(prev => [...prev.filter(d => d.id !== nd.id), nd]) (213, 217)
Upsert(prev, nd) == SelectSeq(prev, LAMBDA d : d.id # nd.id) \o <<nd>>

\* a slip in the guard: the input not trimmed
SubmitRejectedWithoutTrim(input, atts, loading) ==
  (input = <<>> /\ Len(atts) = 0) \/ loading

\* a slip in the guard: the isLoading test left out
SubmitRejectedIgnoringLoading(input, atts, loading) ==
  Trim(input) = <<>> /\ Len(atts) = 0

\* the guard of handleSubmit (line 220)
SubmitRejected(input, atts, loading) ==
  (Trim(input) = <<>> /\ Len(atts) = 0) \/ loading

\* a slip in the loop test: < for <=
LoopStopsOneEarly(round, mode) == round < rounds(mode)

\* round <= rounds after round++ (line 199)
LoopContinues(round, mode) == round <= rounds(mode)

\* --------------------------------------------------- history, persisted
\* history.sort((a, b) => b.timestamp - a.timestamp) of the Sidebar's render
\* (line 51): in place, on the array that is the state, and stable
SidebarSort(list) ==
  LET RECURSIVE Sort(_)
      Sort(n) ==
        IF n = 0 THEN <<>>
        ELSE LET s == Sort(n - 1)
                 d == list[n]
                 k == Cardinality({ i \in 1..Len(s) :
                                      s[i].timestamp >= d.timestamp })
             IN  SubSeq(s, 1, k) \o <<d>> \o SubSeq(s, k + 1, Len(s))
  IN  Sort(Len(list))

\* localStorage.getItem of a key that was never set: null
NoItem == [missing |-> TRUE]

\* JSON.stringify of one Deliberation: a key whose value is undefined is
\* left out (of a Deliberation's keys only finalDecision can be undefined)
JsonObject(d) ==
  IF d.finalDecision = Undefined
    THEN [k \in DOMAIN d \ {"finalDecision"} |-> d[k]]
    ELSE d

\* JSON.stringify(history) (line 108)
JSONstringify(list) == [json |-> [i \in 1..Len(list) |-> JsonObject(list[i])]]

\* JSON.parse(savedHistory) (line 105); reading a key that an object lacks
\* gives undefined
JSONparse(item) ==
  [i \in 1..Len(item.json) |->
     IF "finalDecision" \in DOMAIN item.json[i]
       THEN item.json[i]
       ELSE item.json[i] @@ [finalDecision |-> Undefined]]

\* `if (savedHistory)`: null is falsy, a JSON text never is
Truthy(item) == "json" \in DOMAIN item

\* ------------------------------------------------------ the chat's texts
\* A chat text is a sequence of pieces, spelled in single characters where
\* a keyword could match.
HelloMessage == [sender |-> "ai", text |-> <<"Hello! How can I help you today?">>]

\* contextText (line 111)
ContextText(active) ==
  IF active # NoDeliberation
    THEN <<"I'm now in Council Analyst mode, focused on the deliberation: \"">>
         \o active.title \o <<"\". Ask me anything about it.">>
    ELSE <<"I am in General Assistant mode. Ask me anything, or start a new deliberation.">>

\* the message the effect on [activeDeliberation] appends (line 112)
ContextMessage(active) == [sender |-> "system", text |-> ContextText(active)]

\* a slip in the updater: the earlier messages dropped
PushMessageDroppingOthers(prev, msg) == <<msg>>

\* setChatHistory(prev => [...prev, msg])
PushMessage(prev, msg) == Append(prev, msg)

\* ------------------------------------------------------------------ Init
\* the state once the App has mounted in a browser that stored nothing yet
Init ==
  /\ history = <<>>
  /\ activeDeliberation = NoDeliberation
  /\ userInput = <<>>
  /\ attachments = <<>>
  /\ deliberationMode = "full"
  /\ isLoading = FALSE
  /\ activePersonaId = Null
  /\ currentRound = 0
  /\ now = 0
  /\ runs = <<>>
  /\ chatHistory = <<HelloMessage, ContextMessage(NoDeliberation)>>
  /\ isChatLoading = FALSE
  /\ chatCalls = <<>>
  /\ activeIsStored = FALSE
  /\ storage = JSONstringify(<<>>)
  /\ boot = [pc |-> "running", saved |-> <<>>, updates |-> <<>>]
  /\ used = 0

\* ------------------------------------------------- guards of the bounds
\* the model calls a run of a mode issues when none fails
ScheduledCalls(mode) == rounds(mode) * Len(deliberationMembers(mode)) + 1

\* the model calls scheduled by the runs started so far
ScheduledSoFar ==
  LET RECURSIVE Sum(_)
      Sum(n) == IF n = 0 THEN 0
                ELSE ScheduledCalls(runs[n].newDeliberation.mode) + Sum(n - 1)
  IN  Sum(Len(runs))

\* the bounds leave room for one more run, of the shortest mode at least
AnotherRunFits ==
  /\ now < MaxRuns
  /\ ScheduledSoFar + ScheduledCalls("technologist") <= MaxScheduledCalls

\* ------------------------------------------------------- input handlers
\* the text field's onChange (line 63) and the speech result (line 122)
SetUserInput(v) ==
  /\ AnotherRunFits
  /\ userInput' = v
  /\ UNCHANGED << history, activeDeliberation, attachments, deliberationMode,
                  isLoading, activePersonaId, currentRound, now, runs,
                  chatHistory, activeIsStored, storage, chatVars >>

\* the mode chips (line 63), rendered while not loading (line 243)
SetDeliberationMode(m) ==
  /\ ~isLoading
  /\ AnotherRunFits
  /\ deliberationMode' = m
  /\ UNCHANGED << history, activeDeliberation, userInput, attachments,
                  isLoading, activePersonaId, currentRound, now, runs,
                  chatHistory, activeIsStored, storage, chatVars >>

\* ------------------------------------------------------ runDeliberation
\* The record of one invocation:
\*   pc                  "persona" (awaiting line 204), "chair" (awaiting
\*                       line 211) or "done"
\*   currentRound        `currentRound` as the closure captured it
\*   newDeliberation     the Deliberation object the run mutates
\*   conversationHistory the accumulated parts (line 196)
\*   round, index        the loop variables (lines 199, 201)
\*   sent                the parts of every generateContent call, in order
\*   responses           what each call came back with: its text, or Rejected
\*
\* lines 188-204 up to the first await: the run's record after its first
\* model call was issued.  capturedRound is `currentRound` of the closure
\* that runDeliberation belongs to, which the catch clause reads (line 215).
\* a slip in the id: one id for every Deliberation
StartedRunWithFixedId(prompt, attachedFiles, mode, capturedRound, time) ==
  LET members == deliberationMembers(mode)
      ch      == userPromptParts(prompt, attachedFiles)
  IN  [ pc |-> "persona",
        currentRound |-> capturedRound,
        newDeliberation |->
          [ id |-> <<"delib", 0>>,
            title |-> Substring(prompt, 0, 25) \o <<".", ".", ".">>,
            prompt |-> prompt,
            attachments |-> attachedFiles,
            minutes |-> <<>>,
            finalDecision |-> Undefined,
            timestamp |-> time,
            mode |-> mode ],
        conversationHistory |-> ch,
        round |-> 1,
        index |-> 1,
        sent |-> << ch \o <<TurnPart(members[1], 1)>> >>,
        responses |-> <<>> ]

StartedRun(prompt, attachedFiles, mode, capturedRound, time) ==
  LET members == deliberationMembers(mode)
      ch      == userPromptParts(prompt, attachedFiles)
  IN  [ pc |-> "persona",
        currentRound |-> capturedRound,
        newDeliberation |->
          [ id |-> <<"delib", time>>,
            title |-> Substring(prompt, 0, 25) \o <<".", ".", ".">>,
            prompt |-> prompt,
            attachments |-> attachedFiles,
            minutes |-> <<>>,
            finalDecision |-> Undefined,
            timestamp |-> time,
            mode |-> mode ],
        conversationHistory |-> ch,
        round |-> 1,
        index |-> 1,
        sent |-> << ch \o <<TurnPart(members[1], 1)>> >>,
        responses |-> <<>> ]

\* handleSubmit (line 220) with the synchronous head of runDeliberation and
\* the effect of lines 110-113.  (The form is in the InputArea, which line
\* 243 renders while no run is in progress and the active deliberation has
\* no decision; from a decided one the user gets there through New
\* Deliberation, which is an action of ChatSpec.)
HandleSubmit ==
  IF SubmitRejected(userInput, attachments, isLoading)
    THEN UNCHANGED vars
    ELSE
      /\ now < MaxRuns
      /\ ScheduledSoFar + ScheduledCalls(deliberationMode) <= MaxScheduledCalls
      /\ now' = now + 1
      /\ LET run == StartedRun(userInput, attachments, deliberationMode,
                               currentRound, now')
         IN  /\ runs' = Append(runs, run)
             /\ activeDeliberation' = run.newDeliberation
             /\ activePersonaId' = deliberationMembers(deliberationMode)[1].id
             /\ chatHistory' =
                  PushMessage(chatHistory, ContextMessage(run.newDeliberation))
      /\ activeIsStored' = FALSE
      /\ isLoading' = TRUE
      /\ userInput' = <<>>
      /\ attachments' = <<>>
      /\ currentRound' = 1
      /\ UNCHANGED << history, deliberationMode, storage, chatVars >>

\* responses without usable text received so far, over all runs
OddTexts ==
  LET odd(r) == Cardinality({ k \in 1..Len(runs[r].responses) :
                                Falsy(runs[r].responses[k]) })
      RECURSIVE Sum(_)
      Sum(n) == IF n = 0 THEN 0 ELSE odd(n) + Sum(n - 1)
  IN  Sum(Len(runs))

MayRespond(text) == ~Falsy(text) \/ OddTexts < MaxOddTexts

\* lines 205-207, then the next iteration up to its await (199-204), or the
\* chair call (210-211) when the loops are over
PersonaReturns(r, text) ==
  LET run     == runs[r]
      nd      == run.newDeliberation
      members == deliberationMembers(nd.mode)
      persona == members[run.index]
      newMinute == [personaId |-> persona.id, round |-> run.round,
                    text |-> MinuteText(text), isError |-> FALSE]
      nd2     == [nd EXCEPT !.minutes = Append(@, newMinute)]
      ch2     == PushPart(run.conversationHistory,
                          MinutePart(persona, run.round, text))
      run2    == [run EXCEPT !.newDeliberation = nd2,
                             !.conversationHistory = ch2,
                             !.responses = Append(@, text)]
  IN
  /\ run.pc = "persona"
  /\ MayRespond(text)
  /\ activeDeliberation' = nd2
  /\ activeIsStored' = FALSE
  /\ chatHistory' = PushMessage(chatHistory, ContextMessage(nd2))
  /\ IF run.index < Len(members)
       THEN \* next persona of the same round
         /\ activePersonaId' = members[run.index + 1].id
         /\ currentRound' = currentRound
         /\ runs' = [runs EXCEPT ![r] =
              [run2 EXCEPT !.index = run.index + 1,
                           !.sent = Append(@, ch2 \o
                              <<TurnPart(members[run.index + 1], run.round)>>)]]
       ELSE IF LoopContinues(run.round + 1, nd.mode)
       THEN \* first persona of the next round
         /\ currentRound' = run.round + 1
         /\ activePersonaId' = members[1].id
         /\ runs' = [runs EXCEPT ![r] =
              [run2 EXCEPT !.round = run.round + 1,
                           !.index = 1,
                           !.sent = Append(@, ch2 \o
                              <<TurnPart(members[1], run.round + 1)>>)]]
       ELSE \* the chair synthesis call
         /\ UNCHANGED << activePersonaId, currentRound >>
         /\ runs' = [runs EXCEPT ![r] =
              [run2 EXCEPT !.pc = "chair",
                           !.sent = Append(@, ch2 \o <<SynthesisPart>>)]]
  /\ UNCHANGED << history, userInput, attachments, deliberationMode,
                  isLoading, now, storage, chatVars >>

\* a slip in the failure path: the progress markers not cleared
CatchKeepingMarkers(r) ==
  LET run == runs[r]
      nd  == run.newDeliberation
      errorMinute == [personaId |-> "system", round |-> run.currentRound,
                      text |-> ErrorText, isError |-> TRUE]
      nd2 == [nd EXCEPT !.minutes = Append(@, errorMinute)]
  IN
  /\ runs' = [runs EXCEPT ![r] =
       [run EXCEPT !.pc = "done", !.newDeliberation = nd2,
                   !.responses = Append(@, Rejected)]]
  /\ activeDeliberation' = nd2
  /\ activeIsStored' = FALSE
  /\ chatHistory' = PushMessage(chatHistory, ContextMessage(nd2))
  /\ history' = SidebarSort(Upsert(history, nd2))
  /\ storage' = JSONstringify(history')
  /\ UNCHANGED << isLoading, activePersonaId, currentRound >>
  /\ UNCHANGED << userInput, attachments, deliberationMode, now, chatVars >>

\* the catch clause and the finally clause (lines 214-218), then the render
\* (the Sidebar's sort, line 51) and the effects of lines 108 and 110-113
Catch(r) ==
  LET run == runs[r]
      nd  == run.newDeliberation
      errorMinute == [personaId |-> "system", round |-> run.currentRound,
                      text |-> ErrorText, isError |-> TRUE]
      nd2 == [nd EXCEPT !.minutes = Append(@, errorMinute)]
  IN
  /\ runs' = [runs EXCEPT ![r] =
       [run EXCEPT !.pc = "done", !.newDeliberation = nd2,
                   !.responses = Append(@, Rejected)]]
  /\ activeDeliberation' = nd2
  /\ activeIsStored' = FALSE
  /\ chatHistory' = PushMessage(chatHistory, ContextMessage(nd2))
  /\ history' = SidebarSort(Upsert(history, nd2))
  /\ storage' = JSONstringify(history')
  /\ isLoading' = FALSE
  /\ activePersonaId' = Null
  /\ currentRound' = 0
  /\ UNCHANGED << userInput, attachments, deliberationMode, now, chatVars >>

\* the call of a persona turn is rejected (line 204 throws)
PersonaFails(r) ==
  /\ runs[r].pc = "persona"
  /\ Catch(r)

\* the chair call is rejected (line 211 throws)
ChairFails(r) ==
  /\ runs[r].pc = "chair"
  /\ Catch(r)

\* lines 212-213 and the finally clause (line 218), then the render (the
\* Sidebar's sort, line 51) and the effects of lines 108 and 110-113
ChairReturns(r, text) ==
  LET run == runs[r]
      nd2 == [run.newDeliberation EXCEPT !.finalDecision = text]
  IN
  /\ run.pc = "chair"
  /\ MayRespond(text)
  /\ runs' = [runs EXCEPT ![r] =
       [run EXCEPT !.pc = "done", !.newDeliberation = nd2,
                   !.responses = Append(@, text)]]
  /\ activeDeliberation' = nd2
  /\ activeIsStored' = FALSE
  /\ chatHistory' = PushMessage(chatHistory, ContextMessage(nd2))
  /\ history' = SidebarSort(Upsert(history, nd2))
  /\ storage' = JSONstringify(history')
  /\ isLoading' = FALSE
  /\ activePersonaId' = Null
  /\ currentRound' = 0
  /\ UNCHANGED << userInput, attachments, deliberationMode, now, chatVars >>

\* ------------------------------------------------------------- the chat
\* what the user can send: white space only, a question
ChatInputs == { <<" ">>, <<"q">> }

\* response.text of an assistant call that returned
TextFine    == <<"F", "i", "n", "e", ".">>
TextNotSure == <<"N", "o", "t", " ", "S", "u", "r", "e", " ", "H", "o", "w", ".">>

\* the responses of the text model: with a text, or with no text at all
TextResponses == { [text |-> TextFine], [text |-> TextNotSure], [candidates |-> <<>>] }

\* the responses of the image model: with an inlineData part, or without
ImageResponses == { [inlineData |-> "iVBORw0KGgo"], [text |-> TextFine] }

\* `${error}` of a rejected chat call, and of the Error of line 178
ChatErrorText == "Error: generateContent failed"
NoImageErrorText == "Error: No image was generated."

\* String.prototype.toLowerCase, on the capitals the texts above use
LowerCase(c) ==
  CASE c = "F" -> "f" [] c = "N" -> "n" [] c = "S" -> "s" [] c = "H" -> "h"
    [] OTHER -> c

\* a slip in the keyword test: the text not lower-cased
toLowerCaseLeftOut(s) == s

toLowerCase(s) == [i \in 1..Len(s) |-> LowerCase(s[i])]

\* s.includes(kw)
includes(s, kw) ==
  \E i \in 0..(Len(s) - Len(kw)) : SubSeq(s, i + 1, i + Len(kw)) = kw

\* confusedKeywords (line 153)
confusedKeywords ==
  << <<"s", "o", "r", "r", "y">>,
     <<"d", "o", "n", "'", "t", " ", "u", "n", "d", "e", "r", "s", "t", "a", "n", "d">>,
     <<"n", "o", "t", " ", "s", "u", "r", "e", " ", "h", "o", "w">> >>

\* the text of line 152 for a response without text
CouldNotRespond ==
  <<"S", "o", "r", "r", "y", ",", " I couldn't generate a response.">>

\* response.text || fallback (line 152)
TextOr(response, fallback) ==
  IF "text" \in DOMAIN response /\ response.text # <<>>
    THEN response.text ELSE fallback

\* `${response.text}` (line 181)
InterpolateText(response) ==
  IF "text" \in DOMAIN response THEN response.text ELSE <<"undefined">>

\* PERSONAS.find(p => p.id === id)?.name (line 147)
FindPersonaName(id) ==
  LET found == SelectSeq(PERSONAS, LAMBDA p : p.id = id)
  IN  IF found = <<>> THEN Undefined ELSE found[1].name

\* one line of the minutes of the context (line 147)
MinuteLine(m) ==
  <<"  - ", Interpolate(FindPersonaName(m.personaId)), ": \"", m.text, "\"">>

\* lines.join('\n')
RECURSIVE JoinLines(_)
JoinLines(lines) ==
  IF lines = <<>> THEN <<>>
  ELSE IF Len(lines) = 1 THEN lines[1]
  ELSE lines[1] \o <<"\n">> \o JoinLines(Tail(lines))

\* the context of line 147
ContextPrompt(active, message) ==
  <<"CONTEXT:\n- Deliberation Title: ">> \o active.title
    \o <<"\n- Initial Prompt: ">> \o active.prompt
    \o <<"\n- Minutes:\n">>
    \o JoinLines([i \in 1..Len(active.minutes) |-> MinuteLine(active.minutes[i])])
    \o <<"\n- Final Decision: ", Interpolate(active.finalDecision)>>
    \o <<"\n\nQUESTION: ">> \o message

GeneralInstruction ==
  "You are a helpful AI assistant. Use Google Search if you need up-to-date information."
AnalystInstruction ==
  "You are an AI assistant helping a user understand a council deliberation. Use ONLY the provided context to answer the user's question about the deliberation. Do not use external knowledge or search."

\* a slip in the tools: the search left on in both modes
ChatToolsAlwaysSearch(active) == <<"googleSearch">>

\* tools: activeDeliberation ? [] : [{ googleSearch: {} }] (line 151)
ChatTools(active) == IF active # NoDeliberation THEN <<>> ELSE <<"googleSearch">>

\* the request of line 151, for the activeDeliberation of the closure
AssistantRequest(active, message) ==
  [ model |-> "gemini-3-pro-preview",
    contents |-> IF active # NoDeliberation
                   THEN ContextPrompt(active, message) ELSE message,
    systemInstruction |-> IF active # NoDeliberation
                            THEN AnalystInstruction ELSE GeneralInstruction,
    tools |-> ChatTools(active) ]

\* newPrompt (line 170)
CreativePrompt(type, prompt) ==
  IF type = "image"
    THEN <<"Generate a black and white, low-fidelity, sketchy wireframe for a user interface based on this concept: ">> \o prompt
    ELSE <<"Generate a short, punchy, one-paragraph video concept or script idea for an ad based on this concept: ">> \o prompt

\* the requests of lines 173 and 180
CreativeRequest(type, prompt) ==
  [ model |-> IF type = "image" THEN "gemini-2.5-flash-image"
                                ELSE "gemini-3-pro-preview",
    contents |-> CreativePrompt(type, prompt) ]

\* the two actions of lines 158-159; a handler is the call it makes
FallbackActions(message) ==
  << [text |-> "Generate Wireframe",     type |-> "image", prompt |-> message],
     [text |-> "Generate Video Concept", type |-> "video", prompt |-> message] >>

\* the test of line 154
Confused(active, responseText) ==
  /\ active = NoDeliberation
  /\ \E k \in 1..Len(confusedKeywords) :
       includes(toLowerCase(responseText), confusedKeywords[k])

\* the message of lines 155-163
AnswerMessage(active, message, responseText) ==
  IF Confused(active, responseText)
    THEN [sender |-> "ai", text |-> responseText, prompt |-> message,
          actions |-> FallbackActions(message)]
    ELSE [sender |-> "ai", text |-> responseText]

\* the messages of the catch clauses (lines 165 and 183)
AssistantErrorMessage(error) ==
  [sender |-> "ai", text |-> <<"An error occurred: ", error>>]
CreativeErrorMessage(error) ==
  [sender |-> "ai",
   text |-> <<"Sorry, I couldn't generate the creative content. ", error>>]

\* the sequence without its i-th element
RemoveAt(seq, i) == SubSeq(seq, 1, i - 1) \o SubSeq(seq, i + 1, Len(seq))

\* handleSubmit of the ChatWindow (line 70), whose button is disabled while
\* isLoading (line 71), with handleSendMessage up to its await (141-151).
\* The call keeps the activeDeliberation of the closure it was made in.
HandleSendMessage(message) ==
  IF Trim(message) = <<>>
    THEN UNCHANGED vars
    ELSE
      /\ ~isChatLoading
      /\ used < MaxUserSteps
      /\ used' = used + 1
      /\ chatHistory' = PushMessage(chatHistory, [sender |-> "user", text |-> message])
      /\ isChatLoading' = TRUE
      /\ chatCalls' = Append(chatCalls,
           [ kind |-> "assistant",
             message |-> message,
             activeDeliberation |-> activeDeliberation,
             request |-> AssistantRequest(activeDeliberation, message) ])
      /\ UNCHANGED << history, activeDeliberation, activeIsStored, storage,
                      boot, runVars >>

\* a slip in a chat handler: the history reset
ChatFrameResettingHistory ==
  /\ history' = <<>>
  /\ UNCHANGED << activeDeliberation, activeIsStored, storage, boot,
                  used, runVars >>

\* what every stretch of the chat leaves alone
ChatFrame ==
  UNCHANGED << history, activeDeliberation, activeIsStored, storage, boot,
               used, runVars >>

\* a slip in the post-processing: the mode read from the state on display
\* when the call returns, not from the closure the call was made in
AssistantReturnsInCurrentMode(i, response) ==
  LET call == chatCalls[i]
      responseText == TextOr(response, CouldNotRespond)
  IN
  /\ call.kind = "assistant"
  /\ chatHistory' = PushMessage(chatHistory,
       AnswerMessage(activeDeliberation, call.message, responseText))
  /\ isChatLoading' = FALSE
  /\ chatCalls' = RemoveAt(chatCalls, i)
  /\ ChatFrame

\* lines 152-164 and the finally clause (line 165)
AssistantReturns(i, response) ==
  LET call == chatCalls[i]
      responseText == TextOr(response, CouldNotRespond)
  IN
  /\ call.kind = "assistant"
  /\ chatHistory' = PushMessage(chatHistory,
       AnswerMessage(call.activeDeliberation, call.message, responseText))
  /\ isChatLoading' = FALSE
  /\ chatCalls' = RemoveAt(chatCalls, i)
  /\ ChatFrame

\* the call of line 151 is rejected: the catch and the finally clause (165)
AssistantFails(i) ==
  /\ chatCalls[i].kind = "assistant"
  /\ chatHistory' = PushMessage(chatHistory, AssistantErrorMessage(ChatErrorText))
  /\ isChatLoading' = FALSE
  /\ chatCalls' = RemoveAt(chatCalls, i)
  /\ ChatFrame

\* a click on an action button (line 71: never disabled): generateCreative
\* up to its await (lines 169-173, 180)
GenerateCreative(type, prompt) ==
  /\ used < MaxUserSteps
  /\ used' = used + 1
  /\ isChatLoading' = TRUE
  /\ chatCalls' = Append(chatCalls,
       [ kind |-> type, message |-> prompt,
         request |-> CreativeRequest(type, prompt) ])
  /\ UNCHANGED << chatHistory, history, activeDeliberation, activeIsStored,
                  storage, boot, runVars >>

\* a slip in the image path: a response without image taken for one
HasImagePartAlways(response) == TRUE

\* imagePart?.inlineData (lines 174-175)
HasImagePart(response) == "inlineData" \in DOMAIN response

\* lines 174-178 and the catch and finally clauses (line 183)
ImageReturns(i, response) ==
  /\ chatCalls[i].kind = "image"
  /\ chatHistory' = PushMessage(chatHistory,
       IF HasImagePart(response)
         THEN [sender |-> "ai",
               text |-> <<"Here is the wireframe I came up with:">>,
               image |-> IF "inlineData" \in DOMAIN response
                           THEN <<"data:image/png;base64,", response.inlineData>>
                           ELSE <<"data:image/png;base64,", "undefined">>]
         ELSE CreativeErrorMessage(NoImageErrorText))
  /\ isChatLoading' = FALSE
  /\ chatCalls' = RemoveAt(chatCalls, i)
  /\ ChatFrame

\* line 181 and the finally clause (line 183)
VideoReturns(i, response) ==
  /\ chatCalls[i].kind = "video"
  /\ chatHistory' = PushMessage(chatHistory,
       [sender |-> "ai",
        text |-> <<"Here's a video concept:\n\n">> \o InterpolateText(response)])
  /\ isChatLoading' = FALSE
  /\ chatCalls' = RemoveAt(chatCalls, i)
  /\ ChatFrame

\* the call of line 173 or 180 is rejected: the catch and finally (183)
CreativeFails(i) ==
  /\ chatCalls[i].kind \in {"image", "video"}
  /\ chatHistory' = PushMessage(chatHistory, CreativeErrorMessage(ChatErrorText))
  /\ isChatLoading' = FALSE
  /\ chatCalls' = RemoveAt(chatCalls, i)
  /\ ChatFrame

\* ----------------------------------------------------------- the sidebar
\* handleNewDeliberation (line 129) with the effect of lines 110-113, which
\* runs when the state changed
HandleNewDeliberation ==
  IF activeDeliberation = NoDeliberation
    THEN UNCHANGED vars
    ELSE
      /\ used < MaxUserSteps
      /\ used' = used + 1
      /\ activeDeliberation' = NoDeliberation
      /\ activeIsStored' = FALSE
      /\ chatHistory' = PushMessage(chatHistory, ContextMessage(NoDeliberation))
      /\ UNCHANGED << history, storage, boot, isChatLoading, chatCalls, runVars >>

\* handleSelectDeliberation (line 130) for an item of the Sidebar, with the
\* effect of lines 110-113, which runs when the state is another object
HandleSelectDeliberation(id) ==
  LET found == SelectSeq(history, LAMBDA d : d.id = id)
  IN
  /\ found # <<>>
  /\ IF activeIsStored /\ activeDeliberation = found[1]
       THEN UNCHANGED vars
       ELSE
         /\ used < MaxUserSteps
         /\ used' = used + 1
         /\ activeDeliberation' = found[1]
         /\ activeIsStored' = TRUE
         /\ chatHistory' = PushMessage(chatHistory, ContextMessage(found[1]))
         /\ UNCHANGED << history, storage, boot, isChatLoading, chatCalls, runVars >>

\* ------------------------------------------------------------------ Next
TypeInput    == \E v \in UserInputs : SetUserInput(v)
ChooseMode   == \E m \in DeliberationModes : SetDeliberationMode(m)
TurnAnswered == \E r \in DOMAIN runs, t \in ResponseTexts : PersonaReturns(r, t)
TurnRejected == \E r \in DOMAIN runs : PersonaFails(r)
ChairAnswered == \E r \in DOMAIN runs, t \in ResponseTexts : ChairReturns(r, t)
ChairRejected == \E r \in DOMAIN runs : ChairFails(r)

Next ==
  \/ TypeInput
  \/ ChooseMode
  \/ HandleSubmit
  \/ TurnAnswered
  \/ TurnRejected
  \/ ChairAnswered
  \/ ChairRejected

Spec == Init /\ [][Next]_vars

\* fairness: every outstanding model call eventually returns or is rejected
ModelResponds == TurnAnswered \/ TurnRejected \/ ChairAnswered \/ ChairRejected

FairSpec == Init /\ [][Next]_vars /\ WF_vars(ModelResponds)

\* ------------------------------------------- the chat beside the council
\* Beside the chat the user starts Technologist runs only: the runs of the
\* other modes are those of Spec.
\* the bounds of ChatSpec leave room for one more run
ChatRunFits ==
  /\ now < MaxRuns
  /\ ScheduledSoFar + ScheduledCalls("technologist") <= MaxChatRunCalls

TypeProposal    == SetUserInput(<<"p">>) /\ ChatRunFits
ChooseShortMode == SetDeliberationMode("technologist") /\ ChatRunFits
\* the InputArea is rendered (line 243)
InputAreaRendered ==
  /\ ~isLoading
  /\ IF activeDeliberation = NoDeliberation
       THEN TRUE ELSE Falsy(activeDeliberation.finalDecision)

SubmitShort ==
  /\ InputAreaRendered
  /\ HandleSubmit
  /\ ScheduledSoFar' <= MaxChatRunCalls

SendMessage       == \E m \in ChatInputs : HandleSendMessage(m)
AssistantAnswered == \E i \in DOMAIN chatCalls, a \in TextResponses : AssistantReturns(i, a)
AssistantRejected == \E i \in DOMAIN chatCalls : AssistantFails(i)
ClickAction ==
  \E m \in DOMAIN chatHistory :
    /\ "actions" \in DOMAIN chatHistory[m]
    /\ \E a \in DOMAIN chatHistory[m].actions :
         GenerateCreative(chatHistory[m].actions[a].type,
                          chatHistory[m].actions[a].prompt)
ImageAnswered     == \E i \in DOMAIN chatCalls, a \in ImageResponses : ImageReturns(i, a)
VideoAnswered     == \E i \in DOMAIN chatCalls, a \in TextResponses : VideoReturns(i, a)
CreativeRejected  == \E i \in DOMAIN chatCalls : CreativeFails(i)
NewDeliberation   == HandleNewDeliberation
SelectDeliberation == \E i \in DOMAIN history : HandleSelectDeliberation(history[i].id)

ChatNext ==
  \/ TypeProposal
  \/ ChooseShortMode
  \/ SubmitShort
  \/ TurnAnswered
  \/ TurnRejected
  \/ ChairAnswered
  \/ ChairRejected
  \/ SendMessage
  \/ AssistantAnswered
  \/ AssistantRejected
  \/ ClickAction
  \/ ImageAnswered
  \/ VideoAnswered
  \/ CreativeRejected
  \/ NewDeliberation
  \/ SelectDeliberation

\* what an earlier session left in storage, as the start-up restores it:
\* nothing, or one decided Deliberation older than this session
RestoredLists ==
  { <<>>,
    << [ id |-> <<"delib", 0>>,
         title |-> Substring(<<"o">>, 0, 25) \o <<".", ".", ".">>,
         prompt |-> <<"o">>,
         attachments |-> <<>>,
         minutes |-> << [personaId |-> "technologist", round |-> 1,
                         text |-> MinuteText("aye"), isError |-> FALSE] >>,
         finalDecision |-> "aye",
         timestamp |-> 0,
         mode |-> "technologist" ] >> }

\* the state once the App has mounted and rendered what storage held
ChatInit ==
  \E list \in RestoredLists :
    /\ history = list
    /\ storage = JSONstringify(list)
    /\ boot = [pc |-> "running", saved |-> list, updates |-> <<>>]
    /\ activeDeliberation = NoDeliberation
    /\ userInput = <<>>
    /\ attachments = <<>>
    /\ deliberationMode = "full"
    /\ isLoading = FALSE
    /\ activePersonaId = Null
    /\ currentRound = 0
    /\ now = 0
    /\ runs = <<>>
    /\ chatHistory = <<HelloMessage, ContextMessage(NoDeliberation)>>
    /\ isChatLoading = FALSE
    /\ chatCalls = <<>>
    /\ activeIsStored = FALSE
    /\ used = 0

ChatSpec == ChatInit /\ [][ChatNext]_vars

\* ------------------------------------------------------------ the start-up
\* What an earlier session left in storage: a history list as the program
\* builds and sorts it, of Technologist runs that ended decided, without a
\* decision text, at the first call or at the chair's call.
SavedOutcomes == {"decided", "undecided", "failed", "chairFailed"}

SavedDeliberation(time, outcome) ==
  LET nd     == StartedRun(<<"p">>, <<>>, "technologist", 0, time).newDeliberation
      minute == [personaId |-> "technologist", round |-> 1,
                 text |-> MinuteText("aye"), isError |-> FALSE]
      error  == [personaId |-> "system", round |-> 0,
                 text |-> ErrorText, isError |-> TRUE]
  IN  CASE outcome = "decided" ->
             [nd EXCEPT !.minutes = <<minute>>, !.finalDecision = "aye"]
        [] outcome = "undecided" ->
             [nd EXCEPT !.minutes = <<minute>>]
        [] outcome = "failed" ->
             [nd EXCEPT !.minutes = <<error>>]
        [] outcome = "chairFailed" ->
             [nd EXCEPT !.minutes = <<minute, error>>]

\* the lists of at most MaxSaved records, the newest first
SavedLists ==
  LET RECURSIVE Lists(_)
      Lists(t) ==
        IF t = 0 THEN { <<>> }
        ELSE LET older == Lists(t - 1)
             IN  older \cup
                 { <<SavedDeliberation(t, o)>> \o l : o \in SavedOutcomes, l \in older }
  IN  Lists(MaxSaved)

\* the App as constructed (lines 77-92) in a browser whose storage holds
\* nothing, or a saved list
PersistInit ==
  /\ history = <<>>
  /\ activeDeliberation = NoDeliberation
  /\ userInput = <<>>
  /\ attachments = <<>>
  /\ deliberationMode = "full"
  /\ isLoading = FALSE
  /\ activePersonaId = Null
  /\ currentRound = 0
  /\ now = 0
  /\ runs = <<>>
  /\ chatHistory = <<>>
  /\ isChatLoading = FALSE
  /\ chatCalls = <<>>
  /\ activeIsStored = FALSE
  /\ used = 0
  /\ \/ /\ storage = NoItem
        /\ boot = [pc |-> "created", saved |-> <<>>, updates |-> <<>>]
     \/ \E list \in SavedLists :
          /\ storage = JSONstringify(list)
          /\ boot = [pc |-> "created", saved |-> list, updates |-> <<>>]

\* `if (savedHistory)` (line 105)
Loads(item) == Truthy(item)

\* The mount effects, run in the closure of the first render (history is
\* [], activeDeliberation is null): lines 103-107, line 108, lines 110-113.
\* The state updates they make are queued until the next render.
RunMountEffects(pc) ==
  /\ boot' = [boot EXCEPT
       !.pc = pc,
       !.updates = @
         \o (IF Loads(storage)
               THEN <<[target |-> "history", op |-> "set", value |-> JSONparse(storage)]>>
               ELSE <<>>)
         \o <<[target |-> "chat", op |-> "set", value |-> <<HelloMessage>>]>>
         \o <<[target |-> "chat", op |-> "append",
               value |-> ContextMessage(activeDeliberation)]>>]
  /\ storage' = JSONstringify(history)
  /\ UNCHANGED << history, activeDeliberation, activeIsStored, chatHistory,
                  isChatLoading, chatCalls, used, runVars >>

\* the commit of the first render
MountEffects ==
  /\ boot.pc = "created"
  /\ RunMountEffects("mounted")

\* React.StrictMode (line 252) in a development build: the mount effects
\* run a second time, before the queued updates are rendered
StrictRemount ==
  /\ boot.pc = "mounted"
  /\ RunMountEffects("remounted")

\* the queued updates of one state, applied in order
RECURSIVE ApplyUpdates(_, _, _)
ApplyUpdates(value, target, updates) ==
  IF updates = <<>> THEN value
  ELSE LET u == Head(updates)
           v == IF u.target # target THEN value
                ELSE IF u.op = "set" THEN u.value
                ELSE PushMessage(value, u.value)
       IN  ApplyUpdates(v, target, Tail(updates))

\* the render after the mount effects (the Sidebar's sort, line 51), and
\* the effect of line 108 when history is a new array
Rerender ==
  /\ boot.pc \in {"mounted", "remounted"}
  /\ history' = SidebarSort(ApplyUpdates(history, "history", boot.updates))
  /\ chatHistory' = ApplyUpdates(chatHistory, "chat", boot.updates)
  /\ storage' =
       IF \E k \in DOMAIN boot.updates : boot.updates[k].target = "history"
         THEN JSONstringify(history') ELSE storage
  /\ boot' = [boot EXCEPT !.pc = "running", !.updates = <<>>]
  /\ UNCHANGED << activeDeliberation, activeIsStored, isChatLoading,
                  chatCalls, used, runVars >>

PersistNext ==
  \/ MountEffects
  \/ StrictRemount
  \/ Rerender

PersistSpec == PersistInit /\ [][PersistNext]_vars

\* ------------------------------------------------- the mode table (spec)
\* the participants' ids of each mode, in the order the table prescribes
TableParticipants(mode) ==
  CASE mode = "full"         -> << "environmentalist", "technologist", "ethicist",
                                   "economist", "public-health" >>
    [] mode = "technologist" -> << "technologist" >>
    [] mode = "debate"       -> << "ethicist", "economist" >>

TableRounds(mode) ==
  CASE mode = "full" -> 3 [] mode = "technologist" -> 1 [] mode = "debate" -> 3

\* rounds x |participants|
PlannedMinutes(mode) == TableRounds(mode) * Len(TableParticipants(mode))

\* the k-th scheduled turn, round-major
TurnRound(mode, k)   == ((k - 1) \div Len(TableParticipants(mode))) + 1
TurnPersona(mode, k) ==
  TableParticipants(mode)[((k - 1) % Len(TableParticipants(mode))) + 1]

\* ------------------------------------------------- vocabulary of the claims
InFlight(r) == runs[r].pc # "done"
Ended(r)    == runs[r].pc = "done"

\* no call of run r was rejected so far
NoCallRejected(r) ==
  \A k \in 1..Len(runs[r].responses) : runs[r].responses[k] # Rejected

\* the records of history that carry the id of run r
StoredRecords(r) ==
  { i \in 1..Len(history) : history[i].id = runs[r].newDeliberation.id }

\* every Deliberation value the program holds
AllDeliberations ==
  { runs[r].newDeliberation : r \in DOMAIN runs }
    \cup { history[i] : i \in 1..Len(history) }
    \cup (IF activeDeliberation = NoDeliberation THEN {} ELSE {activeDeliberation})

ErrorMinutes(d)   == { i \in 1..Len(d.minutes) : d.minutes[i].isError }
SuccessMinutes(d) == { i \in 1..Len(d.minutes) : ~d.minutes[i].isError }

PersonaName(id) ==
  LET found == SelectSeq(PERSONAS, LAMBDA p : p.id = id) IN found[1].name

\* a is a subsequence of b: its elements occur in b, in the same order
RECURSIVE IsSubsequence(_, _)
IsSubsequence(a, b) ==
  IF a = <<>> THEN TRUE
  ELSE IF b = <<>> THEN FALSE
  ELSE IF Head(a) = Head(b) THEN IsSubsequence(Tail(a), Tail(b))
  ELSE IsSubsequence(a, Tail(b))

\* ------------------------------------------------------------------- C1
\* C1 (failure truncation): when the call of the k-th scheduled turn of a
\* run is rejected, the stored Deliberation has k-1 non-error minutes, then
\* one isError minute whose round is the round of the k-th turn, it has no
\* finalDecision, and the run issued no call after the k-th.
C1_FailureTruncation ==
  \A r \in DOMAIN runs :
    LET run == runs[r]
        k   == Len(run.responses)
    IN  (Ended(r) /\ run.responses[k] = Rejected
           /\ k <= PlannedMinutes(run.newDeliberation.mode))
        => /\ Cardinality(StoredRecords(r)) = 1
           /\ \A i \in StoredRecords(r) :
                LET d == history[i] IN
                /\ Len(d.minutes) = k
                /\ \A j \in 1..(k - 1) : ~d.minutes[j].isError
                /\ d.minutes[k].isError
                /\ d.minutes[k].round = TurnRound(d.mode, k)
                /\ d.finalDecision = Undefined
           /\ Len(run.sent) = k

\* ------------------------------------------------------------------- C2
\* C2 (mode table and ordering): a run whose calls all succeeded stored
\* exactly rounds x |participants| non-error minutes, the k-th being the
\* minute of the k-th participant in round-major order: 15 in Full, 1 in
\* Technologist (round 1), 6 in Debate (ethicist, economist alternating).
C2_ModeTableAndOrdering ==
  \A r \in DOMAIN runs :
    (Ended(r) /\ NoCallRejected(r))
    => \A i \in StoredRecords(r) :
         LET d == history[i] IN
         /\ Len(d.minutes) = PlannedMinutes(d.mode)
         /\ Len(d.minutes) = (CASE d.mode = "full" -> 15
                                [] d.mode = "technologist" -> 1
                                [] d.mode = "debate" -> 6)
         /\ \A k \in 1..Len(d.minutes) :
              /\ ~d.minutes[k].isError
              /\ d.minutes[k].personaId = TurnPersona(d.mode, k)
              /\ d.minutes[k].round = TurnRound(d.mode, k)
         /\ d.mode = "debate" =>
              \A k \in 1..Len(d.minutes) :
                d.minutes[k].personaId =
                  (IF k % 2 = 1 THEN "ethicist" ELSE "economist")

\* a Full run and a Technologist run both ended with every call answered
C2_Witness ==
  /\ \E r \in DOMAIN runs :
       /\ Ended(r) /\ NoCallRejected(r) /\ StoredRecords(r) # {}
       /\ runs[r].newDeliberation.mode = "full"
       /\ Len(runs[r].newDeliberation.minutes) = 15
  /\ \E r \in DOMAIN runs :
       /\ Ended(r) /\ NoCallRejected(r) /\ StoredRecords(r) # {}
       /\ runs[r].newDeliberation.mode = "technologist"

\* ------------------------------------------------------------------- C3
\* C3: a run whose persona calls and chair call all returned ends with a
\* non-empty finalDecision on the stored Deliberation, whatever the chair
\* call returned, a response without text included.
C3_FinalDecisionNonEmpty ==
  \A r \in DOMAIN runs :
    (Ended(r) /\ NoCallRejected(r))
    => \A i \in StoredRecords(r) : ~Falsy(history[i].finalDecision)

\* ------------------------------------------------------------------- C4
\* the rendering of minutes 1..n of d with persona name and round, as the
\* parts that carry them verbatim
RenderedMinutes(d, n) ==
  [ j \in 1..n |->
      [ kind  |-> "minute",
        name  |-> PersonaName(d.minutes[j].personaId),
        round |-> d.minutes[j].round,
        text  |-> d.minutes[j].text ] ]

\* C4 (context monotonicity): in a successful run, the parts passed to the
\* call that produced minute k contain, verbatim and in order, the stored
\* text of every minute 1..k-1 with its persona name and round, also when a
\* response had no text and the stored text is the placeholder.
C4_ContextMonotonicity ==
  \A r \in DOMAIN runs :
    (Ended(r) /\ NoCallRejected(r))
    => LET d == runs[r].newDeliberation IN
       \A k \in 1..Len(d.minutes) :
         IsSubsequence(RenderedMinutes(d, k - 1), runs[r].sent[k])

\* ------------------------------------------------------------------- C5
\* the persona turns of run r whose call returned without usable text
TextlessTurns(r) ==
  { k \in 1..Len(runs[r].responses) :
      /\ k <= PlannedMinutes(runs[r].newDeliberation.mode)
      /\ Falsy(runs[r].responses[k]) }

\* C5 (as claimed): a turn whose call returned no usable text becomes an
\* isError minute and aborts the run: no later call, no finalDecision.
C5_EmptyOutputAborts ==
  \A r \in DOMAIN runs : \A k \in TextlessTurns(r) :
    LET d == runs[r].newDeliberation IN
    /\ d.minutes[k].isError
    /\ Len(d.minutes) = k
    /\ Len(runs[r].sent) = k
    /\ d.finalDecision = Undefined

\* C5 (amended): a turn whose call returned no usable text is stored as a
\* non-error minute of that persona and round with the placeholder text
\* "No response.", and the run goes on: its next scheduled call (the next
\* persona's, or the chair's after the last turn) is issued.
C5_EmptyOutputPlaceholder ==
  \A r \in DOMAIN runs : \A k \in TextlessTurns(r) :
    LET d == runs[r].newDeliberation IN
    /\ d.minutes[k] = [ personaId |-> TurnPersona(d.mode, k),
                        round |-> TurnRound(d.mode, k),
                        text |-> "No response.",
                        isError |-> FALSE ]
    /\ Len(runs[r].sent) >= k + 1

\* a textless turn that was followed by a further answered turn
C5_Witness ==
  \E r \in DOMAIN runs : \E k \in TextlessTurns(r) :
    /\ Cardinality(SuccessMinutes(runs[r].newDeliberation)) > k
    /\ ~runs[r].newDeliberation.minutes[k].isError

\* ------------------------------------------------------------------- C6
\* C6 (strict sequencing): at most one orchestrator call is outstanding;
\* a run has issued one call more than it has received responses while it
\* is in flight and none more once it ended, and never more calls than its
\* minutes plus one (the call of turn k+1 follows the minute of turn k);
\* while a run is in flight isLoading holds, so handleSubmit starts nothing.
C6_StrictSequencing ==
  /\ Cardinality({ r \in DOMAIN runs : InFlight(r) }) <= 1
  /\ \A r \in DOMAIN runs :
       /\ Len(runs[r].sent) =
            Len(runs[r].responses) + (IF InFlight(r) THEN 1 ELSE 0)
       /\ Len(runs[r].sent) <= Len(runs[r].newDeliberation.minutes) + 1
       /\ InFlight(r) => isLoading

\* a run in flight after its first minute, with a proposal typed in that
\* handleSubmit would accept if nothing were loading
C6_Witness ==
  /\ \E r \in DOMAIN runs :
       InFlight(r) /\ Len(runs[r].newDeliberation.minutes) >= 1
  /\ isLoading
  /\ Trim(userInput) # <<>>
  /\ now < MaxRuns
  /\ ScheduledSoFar + ScheduledCalls(deliberationMode) <= MaxScheduledCalls

\* ------------------------------------------------------------------- C7
\* C7 (as claimed): no Deliberation, active or stored, ever has more
\* minutes, error minutes included, than rounds x |participants|.
C7_MinuteCountBound ==
  \A d \in AllDeliberations : Len(d.minutes) <= PlannedMinutes(d.mode)

\* C7 (amended): no Deliberation ever has more than rounds x |participants|
\* non-error minutes; it has at most one error minute, which is its last
\* minute, so that its minutes never exceed rounds x |participants| + 1;
\* that count is reached when the chair call is rejected after all planned
\* minutes exist.
C7_MinuteCountBoundAmended ==
  \A d \in AllDeliberations :
    /\ Cardinality(SuccessMinutes(d)) <= PlannedMinutes(d.mode)
    /\ ErrorMinutes(d) \subseteq {Len(d.minutes)}
    /\ Len(d.minutes) <= PlannedMinutes(d.mode) + 1

\* a stored Full Deliberation whose chair call was rejected: 15 + 1 minutes
C7_Witness ==
  \E i \in 1..Len(history) :
    /\ history[i].mode = "full"
    /\ Len(history[i].minutes) = PlannedMinutes("full") + 1
    /\ history[i].minutes[Len(history[i].minutes)].isError

\* ------------------------------------------------------------------- C8
\* C8: along the minutes of every Deliberation, error minutes included, the
\* round numbers never decrease, each is at least 1, and the first is 1.
C8_RoundsMonotone ==
  \A d \in AllDeliberations :
    /\ \A i \in 1..Len(d.minutes) : d.minutes[i].round >= 1
    /\ \A i \in 2..Len(d.minutes) : d.minutes[i - 1].round <= d.minutes[i].round
    /\ Len(d.minutes) >= 1 => d.minutes[1].round = 1

\* ------------------------------------------------------------------- C9
\* a Deliberation that holds a finalDecision has all its planned minutes
\* and no error minute
DecidedIsComplete(d) ==
  d.finalDecision # Undefined
    => /\ Len(d.minutes) = PlannedMinutes(d.mode)
       /\ ErrorMinutes(d) = {}

\* C9: the finalDecision of a Deliberation goes from absent to present at
\* most once, and only in a state where all rounds x |participants| planned
\* minutes exist and none is an error minute; a Deliberation with an error
\* minute never has a finalDecision.
C9_FinalDecisionOnce ==
  /\ [](\A d \in AllDeliberations : DecidedIsComplete(d))
  /\ [][ \A r \in DOMAIN runs :
           LET d  == runs[r].newDeliberation
               d2 == runs'[r].newDeliberation
           IN  /\ d.finalDecision # Undefined => d2 = d
               /\ (d.finalDecision = Undefined /\ d2.finalDecision # Undefined)
                    => /\ Len(d.minutes) = PlannedMinutes(d.mode)
                       /\ ErrorMinutes(d) = {}
                       /\ d2.minutes = d.minutes ]_vars

\* a stored Deliberation with a finalDecision
C9_Witness ==
  \E i \in 1..Len(history) :
    /\ history[i].finalDecision # Undefined
    /\ Len(history[i].minutes) = PlannedMinutes(history[i].mode)

\* ------------------------------------------------------------------ C10
\* what holds of every run at every moment: once it ended, history holds
\* exactly one record with its id, equal to its final Deliberation; a
\* rejected call is the last call of its run (no retry, no further call);
\* no two records of history share an id
RunsTerminalAndStored ==
  /\ \A r \in DOMAIN runs :
       /\ Ended(r) =>
            /\ Cardinality(StoredRecords(r)) = 1
            /\ \A i \in StoredRecords(r) : history[i] = runs[r].newDeliberation
            /\ Len(runs[r].sent) = Len(runs[r].responses)
       /\ \A k \in 1..Len(runs[r].responses) :
            runs[r].responses[k] = Rejected
              => /\ k = Len(runs[r].responses)
                 /\ k = Len(runs[r].sent)
                 /\ Ended(r)
  /\ \A i, j \in 1..Len(history) : history[i].id = history[j].id => i = j

\* C10: given that every model call eventually returns or is rejected,
\* every started run eventually ends (an ended run stays ended, so this is:
\* time and again no started run is in flight); and when it has ended, by success or
\* by a rejected call at any turn or at the chair call, history holds
\* exactly one record with the run's id, equal to the run's final
\* Deliberation; a rejected turn is never retried and history never holds
\* two records with one id.
C10_RunTerminalAndStored ==
  /\ []RunsTerminalAndStored
  /\ []<>(\A r \in DOMAIN runs : Ended(r))

\* two runs ended and are stored, one by a rejected turn after a first
\* minute, one by a rejected chair call
C10_Witness ==
  /\ Len(history) = 2
  /\ \E r \in DOMAIN runs :
       /\ Ended(r)
       /\ runs[r].responses[Len(runs[r].responses)] = Rejected
       /\ Len(runs[r].responses) >= 2
       /\ Len(runs[r].responses) <= PlannedMinutes(runs[r].newDeliberation.mode)
  /\ \E r \in DOMAIN runs :
       /\ Ended(r)
       /\ runs[r].responses[Len(runs[r].responses)] = Rejected
       /\ Len(runs[r].responses) = PlannedMinutes(runs[r].newDeliberation.mode) + 1

\* ------------------------------------------------------------------ C11
\* the texts of the minutes of a deliberation, in stored order
MinuteTexts(d) == [k \in 1..Len(d.minutes) |-> d.minutes[k].text]

\* C11: every assistant request made with an active deliberation has the
\* search tool off and carries, in its content, the deliberation's title,
\* its original prompt and the text of every minute, in stored order; every
\* assistant request made with no active deliberation carries the user's
\* message as it is and has the search tool on.
C11_AssistantModeSwitch ==
  \A i \in DOMAIN chatCalls :
    chatCalls[i].kind = "assistant" =>
      LET call == chatCalls[i]
          d    == call.activeDeliberation
          req  == call.request
      IN  IF d # NoDeliberation
            THEN /\ req.tools = <<>>
                 /\ includes(req.contents, d.title)
                 /\ includes(req.contents, d.prompt)
                 /\ IsSubsequence(MinuteTexts(d), req.contents)
            ELSE /\ req.contents = call.message
                 /\ req.tools = <<"googleSearch">>

\* an assistant request stands that was made about a deliberation of two
\* minutes
C11_Witness ==
  \E i \in DOMAIN chatCalls :
    /\ chatCalls[i].kind = "assistant"
    /\ chatCalls[i].activeDeliberation # NoDeliberation
    /\ Len(chatCalls[i].activeDeliberation.minutes) = 2
    /\ chatCalls[i].activeDeliberation = activeDeliberation

\* ------------------------------------------------------------------ C12
\* the newest message of the chat after the step
NewestMessage == chatHistory'[Len(chatHistory')]

\* the step ends the outstanding chat call i
CallEnds(i) == chatCalls' = RemoveAt(chatCalls, i)

\* the answer texts that contain, whatever the case of their letters, one of
\* "sorry", "don't understand", "not sure how"
TextsWithKeyword == { TextNotSure, CouldNotRespond }

\* C12: when an assistant call returns, the message appended for it carries
\* exactly two actions, image wireframe then video concept, both bound to
\* the message the user sent, if the call was made with no active
\* deliberation and the answer text contains a low-confidence keyword in
\* any letter case; it carries no action otherwise, so none at all for a
\* call made with an active deliberation.
C12_ConfusedFallback ==
  [][ \A i \in DOMAIN chatCalls :
        ( /\ chatCalls[i].kind = "assistant"
          /\ CallEnds(i)
          /\ Len(chatHistory') = Len(chatHistory) + 1
          /\ NewestMessage.text # AssistantErrorMessage(ChatErrorText).text )
        => IF /\ chatCalls[i].activeDeliberation = NoDeliberation
              /\ NewestMessage.text \in TextsWithKeyword
             THEN /\ "actions" \in DOMAIN NewestMessage
                  /\ Len(NewestMessage.actions) = 2
                  /\ NewestMessage.actions[1].type = "image"
                  /\ NewestMessage.actions[2].type = "video"
                  /\ \A k \in 1..2 :
                       NewestMessage.actions[k].prompt = chatCalls[i].message
             ELSE "actions" \notin DOMAIN NewestMessage
    ]_vars

\* the chat shows the same keyword-bearing answer twice: once with the two
\* actions (General mode), once without (Analyst mode)
C12_Witness ==
  \E m, n \in DOMAIN chatHistory :
    /\ chatHistory[m].sender = "ai" /\ chatHistory[n].sender = "ai"
    /\ chatHistory[m].text = TextNotSure /\ chatHistory[n].text = TextNotSure
    /\ "actions" \in DOMAIN chatHistory[m]
    /\ "actions" \notin DOMAIN chatHistory[n]

\* ------------------------------------------------------------------ C13
\* the step is a failure of the chat call i: the call is rejected, or the
\* image call returns without an image part
CallFails(i) ==
  \/ AssistantFails(i)
  \/ CreativeFails(i)
  \/ \E a \in ImageResponses : "inlineData" \notin DOMAIN a /\ ImageReturns(i, a)

\* the texts that report an error
IsErrorText(text) ==
  text[1] \in { "An error occurred: ",
                "Sorry, I couldn't generate the creative content. " }

\* C13: a failure of an assistant call or of a creative call (a rejected
\* call, an image response without image part) appends exactly one message,
\* an assistant message with an error text and with neither image nor
\* action, keeps every earlier message, the active deliberation and the
\* history, puts the loading flag of the chat back to false, and issues no
\* call again.
C13_ChatFailureIsLocal ==
  [][ \A i \in DOMAIN chatCalls :
        CallFails(i) =>
          /\ Len(chatHistory') = Len(chatHistory) + 1
          /\ SubSeq(chatHistory', 1, Len(chatHistory)) = chatHistory
          /\ NewestMessage.sender = "ai"
          /\ IsErrorText(NewestMessage.text)
          /\ DOMAIN NewestMessage = {"sender", "text"}
          /\ activeDeliberation' = activeDeliberation
          /\ history' = history
          /\ isChatLoading' = FALSE
          /\ chatCalls' = RemoveAt(chatCalls, i)
    ]_vars

\* the chat shows the error of a creative call that found no image, and
\* accepts a message again
C13_Witness ==
  /\ chatHistory[Len(chatHistory)].sender = "ai"
  /\ chatHistory[Len(chatHistory)].text =
       CreativeErrorMessage(NoImageErrorText).text
  /\ ~isChatLoading
  /\ chatCalls = <<>>

\* ------------------------------------------------------------------ C14
\* a is a prefix of b
IsPrefix(a, b) == Len(a) <= Len(b) /\ SubSeq(b, 1, Len(a)) = a

\* C14: the chat history is append-only: whatever the step (a message
\* sent, an assistant or creative call that ends, a stretch of a run, a
\* change of the active deliberation), the chat history before the step is
\* a prefix of the chat history after it.
C14_ChatAppendOnly == [][ IsPrefix(chatHistory, chatHistory') ]_vars

\* a run's framing messages, a message of the user with its answer and a
\* return to General mode from the sidebar all stand in the chat
C14_Witness ==
  /\ \E m \in DOMAIN chatHistory :
       /\ chatHistory[m].sender = "user"
       /\ m < Len(chatHistory) - 1
       /\ chatHistory[m + 1].sender = "ai"
  /\ \E m \in DOMAIN chatHistory :
       /\ chatHistory[m] # ContextMessage(NoDeliberation)
       /\ chatHistory[m].sender = "system"
  /\ Len(chatHistory) > 3
  /\ chatHistory[Len(chatHistory)] = ContextMessage(NoDeliberation)
  /\ \E r \in DOMAIN runs : Ended(r)

\* ------------------------------------------------------------------ C15
\* what the claim compares of a record
RecordKey(d) == << d.id, d.minutes, d.finalDecision >>
RecordKeys(list) == { RecordKey(list[i]) : i \in 1..Len(list) }

\* the start-up is over
Started == boot.pc = "running"

RunEnds == \E r \in DOMAIN runs : runs[r].pc # "done" /\ runs'[r].pc = "done"

\* C16: history changes only in the step that ends a deliberation run:
\* every other step (a message sent, an assistant or creative call that
\* ends, the selection of a deliberation, New Deliberation, the start and
\* the turns of a run) leaves the records of history and all their fields
\* as they are, also while a run is in progress.
C16_HistoryFrame == [][ history' # history => RunEnds ]_vars

\* a run is in progress beside a stored record; meanwhile the user got an
\* answer in the chat and selected the stored record
C16_Witness ==
  /\ \E r \in DOMAIN runs : InFlight(r)
  /\ history # <<>>
  /\ activeIsStored
  /\ isLoading
  /\ \E m \in DOMAIN chatHistory :
       /\ chatHistory[m].sender = "user"
       /\ m < Len(chatHistory)
       /\ chatHistory[m + 1].sender = "ai"
       /\ \E k \in 1..(m - 1) :
            /\ chatHistory[k].sender = "system"
            /\ chatHistory[k] # ContextMessage(NoDeliberation)

\* ------------------------------------------------------------------ C17
\* a prompt of white space only, or none, and no attachment
Blank(prompt, atts) ==
  /\ \A k \in 1..Len(prompt) : prompt[k] = " "
  /\ Len(atts) = 0

\* C17: a submission with a blank prompt and no attachment is rejected
\* before a run starts: the submit step creates no Deliberation, issues no
\* model call and leaves the active deliberation, the history, the input
\* and the loading state as they are; so no run ever carries a blank prompt
\* without attachment.
C17_BlankSubmissionRejected ==
  /\ [] (\A r \in DOMAIN runs :
           ~Blank(runs[r].newDeliberation.prompt,
                  runs[r].newDeliberation.attachments))
  /\ [][ (Blank(userInput, attachments) /\ HandleSubmit) =>
           UNCHANGED << runs, now, activeDeliberation, history, userInput,
                        attachments, isLoading, activePersonaId,
                        currentRound, chatHistory, storage >>
     ]_vars

\* the input holds white space only, nothing is attached, no run is in
\* progress and the bounds would let a run start
C17_Witness ==
  /\ userInput = <<" ">>
  /\ attachments = <<>>
  /\ ~isLoading
  /\ now < MaxRuns
  /\ ScheduledSoFar + ScheduledCalls(deliberationMode) <= MaxScheduledCalls
  /\ Len(runs) = 1

\* ------------------------------------------------------------------ C18
\* the parts of a call without the instruction that ends them
Accumulated(parts) == SubSeq(parts, 1, Len(parts) - 1)
Instruction(parts) == parts[Len(parts)]

\* C18, as claimed: within a run, the parts of every call after the first
\* hold every part of the call before it, its turn instruction included,
\* in the same order, and more.
C18_ContextSuperset ==
  \A r \in DOMAIN runs :
    \A k \in 2..Len(runs[r].sent) :
      /\ IsSubsequence(runs[r].sent[k - 1], runs[r].sent[k])
      /\ Len(runs[r].sent[k]) > Len(runs[r].sent[k - 1])

\* C18, amended: within a run, the accumulated context of every call after
\* the first (its parts without its own instruction) is the accumulated
\* context of the call before it, unchanged and in the same order, followed
\* by one minute record; the instruction of the call before it is not sent
\* again.  This holds of the chair's call after the last persona's call too.
C18_ContextExtended ==
  \A r \in DOMAIN runs :
    \A k \in 2..Len(runs[r].sent) :
      LET before == runs[r].sent[k - 1]
          after  == runs[r].sent[k]
      IN  /\ Len(Accumulated(after)) = Len(Accumulated(before)) + 1
          /\ SubSeq(after, 1, Len(before) - 1) = Accumulated(before)
          /\ after[Len(before)].kind = "minute"
          /\ Instruction(before).kind = "turn"
          /\ \A j \in 1..Len(after) : after[j] # Instruction(before)
          /\ Instruction(after).kind \in {"turn", "synthesis"}

\* the chair's call of a Full run was issued, after fifteen persona calls
C18_Witness ==
  \E r \in DOMAIN runs :
    /\ Len(runs[r].sent) = 16
    /\ Instruction(runs[r].sent[16]) = SynthesisPart

\* ------------------------------------------------------------------ C19
\* C19: once every run has ended (by success, by a persona's failure or by
\* the chair's failure) the progress markers are clear: isLoading is false,
\* no persona is active and the round is 0; and while a persona's call is
\* outstanding they are set: isLoading is true, the active persona is the
\* persona being called and the round is the round in progress.
C19_ProgressMarkers ==
  /\ (\A r \in DOMAIN runs : Ended(r)) =>
       (~isLoading /\ activePersonaId = Null /\ currentRound = 0)
  /\ \A r \in DOMAIN runs :
       runs[r].pc = "persona" =>
         LET mode == runs[r].newDeliberation.mode
             k    == Len(runs[r].sent)
         IN  /\ isLoading
             /\ activePersonaId = TurnPersona(mode, k)
             /\ currentRound = TurnRound(mode, k)

\* an earlier run ended with a failure, and a persona's call of the second
\* round of a later run is outstanding
C19_Witness ==
  \E r1, r2 \in DOMAIN runs :
    /\ Ended(r1) /\ ~NoCallRejected(r1)
    /\ runs[r2].pc = "persona"
    /\ runs[r2].round = 2
    /\ runs[r2].index = 2

\* ------------------------------------------------------------------ C20
\* the step leaves the stored records as they are: a record of history
\* that is in history after the step, by its id, has all its fields
StoredRecordsKept ==
  \A i \in DOMAIN history :
    \A j \in DOMAIN history' :
      history'[j].id = history[i].id => history'[j] = history[i]

\* the step leaves the Deliberation of every ended run as it is
EndedRecordsKept ==
  \A r \in DOMAIN runs :
    runs[r].pc = "done" => runs'[r].newDeliberation = runs[r].newDeliberation

\* the step changes the Deliberation of a run in progress by the append of
\* one minute or by the assignment of finalDecision, if at all
OnlyOrchestratorChanges ==
  \A r \in DOMAIN runs :
    LET before == runs[r].newDeliberation
        after  == runs'[r].newDeliberation
    IN  runs[r].pc # "done" =>
          /\ after.id = before.id
          /\ after.prompt = before.prompt
          /\ after.mode = before.mode
          /\ after.attachments = before.attachments
          /\ \/ after.minutes = before.minutes
             \/ /\ Len(after.minutes) = Len(before.minutes) + 1
                /\ SubSeq(after.minutes, 1, Len(before.minutes)) = before.minutes
          /\ after.finalDecision # before.finalDecision =>
               (before.finalDecision = Undefined /\ runs'[r].pc = "done")

\* C20: a Deliberation is immutable from the step that appends it to
\* history or sets its finalDecision: no later step (a later run, the chat,
\* the sidebar's selection, New Deliberation, the sidebar's sort) changes
\* its minutes, finalDecision, prompt, mode or attachments; before that
\* step only the append of a minute and the assignment of finalDecision
\* change it.
C20_RecordImmutable ==
  [][ StoredRecordsKept /\ EndedRecordsKept /\ OnlyOrchestratorChanges ]_vars

\* a run ended and was stored beside the restored record; the user sent a
\* message in between and then selected the restored record
C20_Witness ==
  /\ Len(history) = 2
  /\ \E r \in DOMAIN runs : Ended(r)
  /\ activeIsStored
  /\ activeDeliberation.id = <<"delib", 0>>
  /\ \E m \in DOMAIN chatHistory : chatHistory[m].sender = "user"

\* ------------------------------------------------------------------ C21
\* the run that is in progress, if any
Orchestrated ==
  { runs[r].newDeliberation.id : r \in { q \in DOMAIN runs : InFlight(q) } }

\* the Deliberation on display is the one of a run in progress
ActiveIsOrchestrated ==
  IF activeDeliberation = NoDeliberation
    THEN FALSE
    ELSE activeDeliberation.id \in Orchestrated

\* C21: while a run is in progress (isLoading true) the active Deliberation
\* is the one being orchestrated: no step, the selection of a history item
\* and New Deliberation included, leaves isLoading true with the active
\* Deliberation absent or of another id; and a minute or decision of the
\* run never replaces a Deliberation the user navigated to.
C21_ActiveIsOrchestrated ==
  [][ /\ isLoading' => ActiveIsOrchestrated'
      /\ (isLoading /\ runs' # runs) => ActiveIsOrchestrated ]_vars

\* ------------------------------------------------------- the chat alone
\* The chat of a session without deliberations. The session is new, or the
\* user has asked "q" in General mode and was given an answer that carries
\* the two action buttons (lines 141-160).
AnsweredChats ==
  { <<HelloMessage, ContextMessage(NoDeliberation)>>,
    <<HelloMessage, ContextMessage(NoDeliberation),
      [sender |-> "user", text |-> <<"q">>],
      AnswerMessage(NoDeliberation, <<"q">>, TextNotSure)>> }

ChatOnlyInit ==
  /\ chatHistory \in AnsweredChats
  /\ history = <<>>
  /\ storage = JSONstringify(<<>>)
  /\ boot = [pc |-> "running", saved |-> <<>>, updates |-> <<>>]
  /\ activeDeliberation = NoDeliberation
  /\ userInput = <<>>
  /\ attachments = <<>>
  /\ deliberationMode = "full"
  /\ isLoading = FALSE
  /\ activePersonaId = Null
  /\ currentRound = 0
  /\ now = 0
  /\ runs = <<>>
  /\ isChatLoading = FALSE
  /\ chatCalls = <<>>
  /\ activeIsStored = FALSE
  /\ used = 0

ChatOnlyNext ==
  \/ SendMessage
  \/ AssistantAnswered
  \/ AssistantRejected
  \/ ClickAction
  \/ ImageAnswered
  \/ VideoAnswered
  \/ CreativeRejected

ChatOnlySpec == ChatOnlyInit /\ [][ChatOnlyNext]_vars

\* ------------------------------------------------------------------ C22
\* C22: isChatLoading is true in every state where an Assistant call or a
\* call of a fallback action is outstanding and false only when none is,
\* also when an action button is clicked while another call of the chat is
\* outstanding and the two calls end at different times.
C22_LoadingWhileOutstanding ==
  isChatLoading <=> chatCalls # <<>>

\* ------------------------------------------------------------------ C23
\* two values of activeDeliberation are the same Deliberation: both none,
\* or both of one id
SameDeliberation(a, b) ==
  IF a = NoDeliberation \/ b = NoDeliberation
    THEN a = b
    ELSE a.id = b.id

\* the step appends a system message to the chat
FramingAppended ==
  /\ Len(chatHistory') = Len(chatHistory) + 1
  /\ chatHistory'[Len(chatHistory')].sender = "system"

\* C23: a system framing message (the announcement of General or Council
\* Analyst mode) is appended to the chat only by a step in which the active
\* Deliberation changes to another id, or between some and none: the
\* minutes and the finalDecision of a run add none beyond the one of the
\* run's start.
C23_FramingOnChange ==
  [][ FramingAppended =>
        ~SameDeliberation(activeDeliberation, activeDeliberation') ]_vars

\* ------------------------------------------------------------------ C24
\* the step appends the answer of the Assistant call i
AssistantAnswers(i) ==
  /\ chatCalls[i].kind = "assistant"
  /\ CallEnds(i)
  /\ Len(chatHistory') = Len(chatHistory) + 1
  /\ NewestMessage.text # AssistantErrorMessage(ChatErrorText).text

\* the request was sent in General mode: general instruction, the search
\* tool enabled, the user's message as its content
SentInGeneralMode(call) ==
  /\ call.request.systemInstruction = GeneralInstruction
  /\ call.request.tools = <<"googleSearch">>
  /\ call.request.contents = call.message

\* the request was sent in Analyst mode about the Deliberation d
SentInAnalystMode(call, d) ==
  /\ d # NoDeliberation
  /\ call.request.systemInstruction = AnalystInstruction
  /\ call.request.tools = <<>>
  /\ call.request.contents = ContextPrompt(d, call.message)

\* C24: an invocation of handleSendMessage uses one mode for its request
\* and for its post-processing, whatever becomes of the active Deliberation
\* while the call is outstanding (changed, cleared, advanced by a run): the
\* answer carries the fallback actions exactly if the request was sent in
\* General mode and the answer text has a low-confidence keyword, so never
\* for a request sent with the search tool off; and a request sent in
\* Analyst mode was built from the Deliberation the invocation captured.
C24_SingleMode ==
  [][ \A i \in DOMAIN chatCalls :
        AssistantAnswers(i) =>
          LET call == chatCalls[i]
          IN  /\ \/ SentInGeneralMode(call)
                 \/ SentInAnalystMode(call, call.activeDeliberation)
              /\ ("actions" \in DOMAIN NewestMessage) <=>
                   ( /\ SentInGeneralMode(call)
                     /\ NewestMessage.text \in TextsWithKeyword )
              /\ "actions" \in DOMAIN NewestMessage =>
                   call.request.tools = <<"googleSearch">>
    ]_vars

\* the user asked about the Deliberation of a run, chose New Deliberation
\* while the call was outstanding, and the answer, with a keyword, came
\* without actions in a chat that is in General mode by then
C24_Witness ==
  /\ Len(chatHistory) >= 3
  /\ LET n == Len(chatHistory)
     IN  /\ chatHistory[n].sender = "ai"
         /\ chatHistory[n].text = TextNotSure
         /\ "actions" \notin DOMAIN chatHistory[n]
         /\ chatHistory[n - 1] = ContextMessage(NoDeliberation)
         /\ chatHistory[n - 2].sender = "user"
  /\ activeDeliberation = NoDeliberation

====
